---- MODULE Spec2Model ----
(***************************************************************************)
(* Connect Four minimax player (src/connect4player.py, class               *)
(* ComputerPlayer).  The rack is column-major: rack[col][row], column 0 on  *)
(* the left, row 0 at the bottom, 0 = empty, 1 and 2 = the players' discs.  *)
(***************************************************************************)
EXTENDS Integers, Sequences, FiniteSets, TLC

VARIABLES
    ID,          \* self.ID: which player the engine is
    MAX_PLIES,   \* self.MAX_PLIES: the difficulty level
    shape,       \* (num_cols, num_rows) of the rack in play
    rack,        \* the array the caller holds and passes as `rack`
    numpy_rack,  \* pick_move's working copy, as its last call left it
    op,          \* the method called last
    arg,         \* its arguments
    ret,         \* what it returned
    entry,       \* the rack as that call was entered
    prev         \* the call before a _unmake_move call: [op, arg, ret, entry]

vars == <<ID, MAX_PLIES, shape, rack, numpy_rack, op, arg, ret, entry, prev>>

(***************************************************************************)
(* Bounds of the model.                                                    *)
(***************************************************************************)
\* most discs on a rack that _make_move calls build up
MaxDiscs == 4
\* most discs on the racks of the taller shape handed to the search
MaxSearchDiscs == 2
\* largest difficulty level (ply budget) the search runs with
MaxPlies == 4

(***************************************************************************)
(* Racks and shapes.  shape[0] = number of columns, shape[1] = number of   *)
(* rows, as in the source's (num_cols, num_rows) tuple.                     *)
(***************************************************************************)
Shape(c, r) == (0 :> c) @@ (1 :> r)

EmptyRack(s) == [i \in 0..(s[0]-1) |-> [j \in 0..(s[1]-1) |-> 0]]

Players == {1, 2}

\* the value pick_move returns when there is no move: Python's None
NoMove == -1

(***************************************************************************)
(* Scores.  Python computes scores as exact integers and, after            *)
(* score[0] / ply, as floats k * 1e9 / ply.  A score is kept here as the    *)
(* pair [w, h] standing for  w * (WIN / Scale) + h : w counts the win part  *)
(* in units of WIN/Scale (Scale is a common multiple of every ply), h is    *)
(* the heuristic part.  Every heuristic total is far below WIN / Scale, so  *)
(* the numeric order is the lexicographic order of (w, h).                  *)
(***************************************************************************)
WIN == 1000000000

RECURSIVE Gcd(_, _)
Gcd(a, b) == IF b = 0 THEN a ELSE Gcd(b, a % b)

RECURSIVE LcmUpTo(_)
LcmUpTo(n) == IF n <= 1 THEN 1 ELSE LET l == LcmUpTo(n - 1) IN (l * n) \div Gcd(l, n)

Scale == LcmUpTo(MaxPlies + 1)

\* an integer score as a number
Num(x) == [w |-> 0, h |-> x]

\* seeded fault: a win is worth 100 points, so heuristic totals can exceed it
QuotOfHundred(x, ply) == Num(((x \div WIN) * 100) \div ply)

\* x / ply for x a multiple of WIN (the only values the source divides)
Quot(x, ply) == [w |-> (x \div WIN) * (Scale \div ply), h |-> 0]

\* seeded fault: the running maximum starts at 0
ZeroSentinel == Num(0)

\* the sentinels -10000000000 and 10000000000
NegSentinel == [w |-> (0 - 10) * Scale, h |-> 0]
PosSentinel == [w |-> 10 * Scale, h |-> 0]

\* a < b
Less(a, b) == a.w < b.w \/ (a.w = b.w /\ a.h < b.h)

\* seeded fault: score >= high_score, so a later column takes a tie
AtLeast(score, high_score) == ~Less(score, high_score)

\* score > high_score
Better(score, high_score) == Less(high_score, score)

(***************************************************************************)
(* _rack_full                                                              *)
(***************************************************************************)
RECURSIVE RackFullLoop(_, _, _)
RackFullLoop(r, s, i) ==
    IF i < s[0]
    THEN IF r[i][s[1]-1] = 0 THEN FALSE ELSE RackFullLoop(r, s, i + 1)
    ELSE TRUE

_rack_full(r, s) == RackFullLoop(r, s, 0)

(***************************************************************************)
(* _make_move: [ret, rack].  ret is "True", "False" or, when the loop runs  *)
(* off the column, "None".                                                  *)
(***************************************************************************)
\* seeded fault: the disc is put in the top cell of the column
MakeOnTop(r, col, s, player, i) ==
    [ret |-> "True", rack |-> [r EXCEPT ![col][s[1]-1] = player]]

RECURSIVE MakeLoop(_, _, _, _, _)
MakeLoop(r, col, s, player, i) ==
    IF i < s[1]
    THEN IF r[col][i] = 0
         THEN [ret |-> "True", rack |-> [r EXCEPT ![col][i] = player]]
         ELSE MakeLoop(r, col, s, player, i + 1)
    ELSE [ret |-> "None", rack |-> r]

_make_move(r, col, s, player) ==
    IF r[col][s[1]-1] # 0
    THEN [ret |-> "False", rack |-> r]
    ELSE MakeLoop(r, col, s, player, 0)

(***************************************************************************)
(* _unmake_move: [ret, rack]                                               *)
(***************************************************************************)
\* seeded fault: the disc on the floor of the column is the one removed
UnmakeLowest(r, col, s, i) ==
    IF r[col][0] # 0
    THEN [ret |-> "True", rack |-> [r EXCEPT ![col][0] = 0]]
    ELSE [ret |-> "False", rack |-> r]

RECURSIVE UnmakeLoop(_, _, _, _)
UnmakeLoop(r, col, s, i) ==
    IF i >= 0
    THEN IF r[col][i] # 0
         THEN [ret |-> "True", rack |-> [r EXCEPT ![col][i] = 0]]
         ELSE UnmakeLoop(r, col, s, i - 1)
    ELSE [ret |-> "False", rack |-> r]

\* seeded fault: the scan starts one row below the top
UnmakeBelowTop(r, col, s) == UnmakeLoop(r, col, s, s[1] - 2)

_unmake_move(r, col, s) == UnmakeLoop(r, col, s, s[1] - 1)

(***************************************************************************)
(* _quartet_score: [score, win]                                            *)
(***************************************************************************)
\* seeded fault: a quartet holding discs of both players is not recognised
\* and is scored by the engine's discs in it
QuartetScoreUnmixed(id, disc1, disc2, disc3, disc4) ==
    LET discs == <<disc1, disc2, disc3, disc4>>
        own == Cardinality({k \in 1..4 : discs[k] = id})
        opp == Cardinality({k \in 1..4 : discs[k] \notin {0, id}})
    IN IF own = 4 THEN [score |-> WIN, win |-> TRUE]
       ELSE IF opp = 4 THEN [score |-> 0 - WIN, win |-> TRUE]
       ELSE IF own = 3 THEN [score |-> 100, win |-> FALSE]
       ELSE IF own = 2 THEN [score |-> 10, win |-> FALSE]
       ELSE IF own = 1 THEN [score |-> 1, win |-> FALSE]
       ELSE IF opp = 3 THEN [score |-> 0 - 100, win |-> FALSE]
       ELSE IF opp = 2 THEN [score |-> 0 - 10, win |-> FALSE]
       ELSE IF opp = 1 THEN [score |-> 0 - 1, win |-> FALSE]
       ELSE [score |-> 0, win |-> FALSE]

_quartet_score(id, disc1, disc2, disc3, disc4) ==
    IF disc1 = disc2 /\ disc2 = disc3 /\ disc3 = disc4
    THEN IF disc1 = 0 THEN [score |-> 0, win |-> FALSE]
         ELSE IF disc1 = id THEN [score |-> WIN, win |-> TRUE]
         ELSE [score |-> 0 - WIN, win |-> TRUE]
    ELSE IF (disc1 = 1 \/ disc2 = 1 \/ disc3 = 1 \/ disc4 = 1)
            /\ (disc1 = 2 \/ disc2 = 2 \/ disc3 = 2 \/ disc4 = 2)
    THEN [score |-> 0, win |-> FALSE]
    ELSE LET pid == IF disc1 = 1 \/ disc2 = 1 \/ disc3 = 1 \/ disc4 = 1 THEN 1 ELSE 2
             zeros == (IF disc1 = 0 THEN 1 ELSE 0) + (IF disc2 = 0 THEN 1 ELSE 0)
                      + (IF disc3 = 0 THEN 1 ELSE 0) + (IF disc4 = 0 THEN 1 ELSE 0)
         IN IF zeros = 3
            THEN (IF pid = id THEN [score |-> 1, win |-> FALSE]
                              ELSE [score |-> 0 - 1, win |-> FALSE])
            ELSE IF zeros = 2
            THEN (IF pid = id THEN [score |-> 10, win |-> FALSE]
                              ELSE [score |-> 0 - 10, win |-> FALSE])
            ELSE (IF pid = id THEN [score |-> 100, win |-> FALSE]
                              ELSE [score |-> 0 - 100, win |-> FALSE])

(***************************************************************************)
(* _board_state_score: [score, win].  The four loop nests of the source:    *)
(* each is the sequence, over the outer index i, of the sequences, over     *)
(* the inner index j, of the quartets visited; a quartet is its four cells  *)
(* <<col, row>> in the order they are passed to _quartet_score.             *)
(***************************************************************************)
VerticalQuartets(s) ==
    IF s[1] > 3
    THEN [a \in 1..s[0] |-> [b \in 1..(s[1]-3) |->
            LET i == a - 1  j == b - 1
            IN <<<<i, j>>, <<i, j+1>>, <<i, j+2>>, <<i, j+3>>>>]]
    ELSE <<>>

HorizontalQuartets(s) ==
    IF s[0] > 3
    THEN [a \in 1..(s[0]-3) |-> [b \in 1..s[1] |->
            LET i == a - 1  j == b - 1
            IN <<<<i, j>>, <<i+1, j>>, <<i+2, j>>, <<i+3, j>>>>]]
    ELSE <<>>

RisingQuartets(s) ==
    IF s[0] > 3 /\ s[1] > 3
    THEN [a \in 1..(s[0]-3) |-> [b \in 1..(s[1]-3) |->
            LET i == a - 1  j == b - 1
            IN <<<<i, j>>, <<i+1, j+1>>, <<i+2, j+2>>, <<i+3, j+3>>>>]]
    ELSE <<>>

\* seeded fault: the second diagonal nest repeats the first
FallingAsRising(s) == RisingQuartets(s)

FallingQuartets(s) ==
    IF s[0] > 3 /\ s[1] > 3
    THEN [a \in 1..(s[0]-3) |-> [b \in 1..(s[1]-3) |->
            LET i == 3 + (a - 1)  j == b - 1
            IN <<<<i, j>>, <<i-1, j+1>>, <<i-2, j+2>>, <<i-3, j+3>>>>]]
    ELSE <<>>

ScanOrder(s) ==
    <<VerticalQuartets(s), HorizontalQuartets(s), RisingQuartets(s), FallingQuartets(s)>>

\* the shapes of the racks the specifications use, and their scan orders
EvalShapes == {Shape(4, 4), Shape(4, 3), Shape(3, 4), Shape(2, 2)}
FullShapes == {Shape(4, 2), Shape(6, 1)}
OpenShapes == {Shape(4, 4)}
ScenarioShape == Shape(7, 6)
AllShapes == EvalShapes \cup FullShapes \cup OpenShapes \cup {ScenarioShape}

ScanTable == [s \in AllShapes |-> ScanOrder(s)]

\* the inner loop: for j in range(...)
RECURSIVE ScanInner(_, _, _, _, _)
ScanInner(id, r, qs, n, score) ==
    IF n > Len(qs)
    THEN [score |-> score, win |-> FALSE]
    ELSE LET q == qs[n]
             tmp == _quartet_score(id, r[q[1][1]][q[1][2]], r[q[2][1]][q[2][2]],
                                       r[q[3][1]][q[3][2]], r[q[4][1]][q[4][2]])
         IN IF tmp.win THEN tmp ELSE ScanInner(id, r, qs, n + 1, score + tmp.score)

\* the outer loop: for i in range(...)
RECURSIVE ScanOuter(_, _, _, _, _)
ScanOuter(id, r, nest, m, score) ==
    IF m > Len(nest)
    THEN [score |-> score, win |-> FALSE]
    ELSE LET inner == ScanInner(id, r, nest[m], 1, score)
         IN IF inner.win THEN inner ELSE ScanOuter(id, r, nest, m + 1, inner.score)

\* the loop nests one after another
RECURSIVE ScanNests(_, _, _, _, _)
ScanNests(id, r, nests, d, score) ==
    IF d > Len(nests)
    THEN [score |-> score, win |-> FALSE]
    ELSE LET nest == ScanOuter(id, r, nests[d], 1, score)
         IN IF nest.win THEN nest ELSE ScanNests(id, r, nests, d + 1, nest.score)

_board_state_score(id, r, s) == ScanNests(id, r, ScanTable[s], 1, 0)

(***************************************************************************)
(* _minimax: [score, rack] - the value returned and the rack as the call    *)
(* leaves it (the source mutates the one array in place).                   *)
(***************************************************************************)
RECURSIVE _minimax(_, _, _, _, _)
RECURSIVE MinimaxLoop(_, _, _, _, _, _, _, _, _)

MinimaxLoop(id, maxp, r, s, ply, player, i, high_score, low_score) ==
    IF i < s[0]
    THEN LET m == _make_move(r, i, s, player)
         IN IF m.ret = "True"
            THEN LET sub == _minimax(id, maxp, m.rack, s, ply + 1)
                     hi == IF Better(sub.score, high_score) THEN sub.score ELSE high_score
                     lo == IF Less(sub.score, low_score) THEN sub.score ELSE low_score
                     u == _unmake_move(sub.rack, i, s)
                 IN MinimaxLoop(id, maxp, u.rack, s, ply, player, i + 1, hi, lo)
            ELSE MinimaxLoop(id, maxp, m.rack, s, ply, player, i + 1, high_score, low_score)
    ELSE [high_score |-> high_score, low_score |-> low_score, rack |-> r]

\* seeded fault: the engine decides at odd plies and the opponent at even ones
MoverSwapped(id, ply) == IF (ply % 2) = 1 THEN id ELSE (IF id = 1 THEN 2 ELSE 1)

\* who makes the next decision at this ply
Mover(id, ply) == IF (ply % 2) = 1 THEN (IF id = 1 THEN 2 ELSE 1) ELSE id

\* seeded fault: the opponent's nodes return the highest score
NodeScoreSwapped(id, player, high_score, low_score) ==
    IF id # player THEN high_score ELSE low_score

\* the score a node returns, from the highest and lowest of its children
NodeScore(id, player, high_score, low_score) ==
    IF id # player THEN low_score ELSE high_score

_minimax(id, maxp, r, s, ply) ==
    LET score == _board_state_score(id, r, s)
    IN IF score.win
       THEN [score |-> Quot(score.score, ply), rack |-> r]
       ELSE IF _rack_full(r, s)
       THEN [score |-> Num(0), rack |-> r]
       ELSE IF ply = maxp
       THEN LET score2 == _board_state_score(id, r, s)
            IN IF score2.win
               THEN [score |-> Quot(score2.score, ply), rack |-> r]
               ELSE [score |-> Num(score2.score), rack |-> r]
       ELSE LET player == Mover(id, ply)
                l == MinimaxLoop(id, maxp, r, s, ply, player, 0, NegSentinel, PosSentinel)
            IN [score |-> NodeScore(id, player, l.high_score, l.low_score),
                rack |-> l.rack]

(***************************************************************************)
(* pick_move: [ret, numpy_rack] - the column returned (NoMove for None) and *)
(* the working array as the call leaves it.                                 *)
(***************************************************************************)
RECURSIVE PickLoop(_, _, _, _, _, _, _)
PickLoop(id, maxp, r, s, i, best_move, high_score) ==
    IF i < s[0]
    THEN LET m == _make_move(r, i, s, id)
         IN IF m.ret = "True"
            THEN LET sub == _minimax(id, maxp, m.rack, s, 1)
                     better == Better(sub.score, high_score)
                     u == _unmake_move(sub.rack, i, s)
                 IN PickLoop(id, maxp, u.rack, s, i + 1,
                             IF better THEN i ELSE best_move,
                             IF better THEN sub.score ELSE high_score)
            ELSE PickLoop(id, maxp, m.rack, s, i + 1, best_move, high_score)
    ELSE [ret |-> best_move, numpy_rack |-> r]

pick_move(id, maxp, r) ==
    LET s == Shape(Cardinality(DOMAIN r), Cardinality(DOMAIN r[0]))
        \* np.full(shape, rack): a fresh array holding the cells of rack
        np == r
    IN IF _rack_full(np, s)
       THEN [ret |-> NoMove, numpy_rack |-> np]
       ELSE PickLoop(id, maxp, np, s, 0, 0, NegSentinel)

(***************************************************************************)
(* Racks as the game describes them, independently of the methods above:    *)
(* discs rest on the floor or on another disc.                              *)
(***************************************************************************)
Cols(s) == 0..(s[0]-1)
Rows(s) == 0..(s[1]-1)

Height(r, s, col) == Cardinality({j \in Rows(s) : r[col][j] # 0})

Discs(r, s) == Cardinality({c \in Cols(s) \X Rows(s) : r[c[1]][c[2]] # 0})

Drop(r, s, col, p) == [r EXCEPT ![col][Height(r, s, col)] = p]

Open(r, s) == {c \in Cols(s) : r[c][s[1]-1] = 0}

RECURSIVE RacksWith(_, _)
RacksWith(s, n) ==
    IF n = 0
    THEN {EmptyRack(s)}
    ELSE {Drop(x[1], s, x[2], x[3]) :
            x \in {y \in RacksWith(s, n - 1) \X Cols(s) \X Players : y[2] \in Open(y[1], s)}}

RacksUpTo(s, n) == UNION {RacksWith(s, k) : k \in 0..n}

NoCall == [col |-> 0, player |-> 0, ply |-> 0, discs |-> <<>>]
NoPrev == [op |-> "none", arg |-> NoCall, ret |-> "none", entry |-> <<>>]

(***************************************************************************)
(* The specification of the move simulator and the evaluator: a player is   *)
(* constructed, discs are dropped into and taken from an empty rack with    *)
(* _make_move and _unmake_move, and the rack is scored.                     *)
(***************************************************************************)
Init ==
    /\ ID \in Players
    /\ MAX_PLIES = 1
    /\ shape \in EvalShapes
    /\ rack = EmptyRack(shape)
    /\ numpy_rack = <<>>
    /\ op = "init"
    /\ arg = NoCall
    /\ ret = "none"
    /\ entry = rack
    /\ prev = NoPrev

\* the calls that change the rack come one after another; a scoring call is
\* observed and nothing follows it
Playing == op \in {"init", "_make_move", "_unmake_move"}

MakeMoveCall ==
    /\ Playing
    /\ \E col \in Cols(shape), player \in Players :
         /\ Discs(rack, shape) < MaxDiscs \/ rack[col][shape[1]-1] # 0
         /\ LET res == _make_move(rack, col, shape, player)
            IN /\ rack' = res.rack
               /\ ret' = res.ret
         /\ arg' = [NoCall EXCEPT !.col = col, !.player = player]
    /\ op' = "_make_move"
    /\ entry' = rack
    /\ prev' = NoPrev
    /\ UNCHANGED <<ID, MAX_PLIES, shape, numpy_rack>>

UnmakeMoveCall ==
    /\ Playing
    /\ \E col \in Cols(shape) :
         /\ LET res == _unmake_move(rack, col, shape)
            IN /\ rack' = res.rack
               /\ ret' = res.ret
         /\ arg' = [NoCall EXCEPT !.col = col]
    /\ op' = "_unmake_move"
    /\ entry' = rack
    /\ prev' = IF op = "_make_move"
               THEN [op |-> op, arg |-> arg, ret |-> ret, entry |-> entry]
               ELSE NoPrev
    /\ UNCHANGED <<ID, MAX_PLIES, shape, numpy_rack>>

RackFullCall ==
    /\ Playing
    /\ ret' = _rack_full(rack, shape)
    /\ op' = "_rack_full"
    /\ arg' = NoCall
    /\ entry' = rack
    /\ prev' = NoPrev
    /\ UNCHANGED <<ID, MAX_PLIES, shape, rack, numpy_rack>>

BoardStateScoreCall ==
    /\ Playing
    /\ ret' = _board_state_score(ID, rack, shape)
    /\ op' = "_board_state_score"
    /\ arg' = NoCall
    /\ entry' = rack
    /\ prev' = NoPrev
    /\ UNCHANGED <<ID, MAX_PLIES, shape, rack, numpy_rack>>

QuartetScoreCall ==
    /\ op = "init"
    /\ \E disc1 \in 0..2, disc2 \in 0..2, disc3 \in 0..2, disc4 \in 0..2 :
         /\ ret' = _quartet_score(ID, disc1, disc2, disc3, disc4)
         /\ arg' = [NoCall EXCEPT !.discs = <<disc1, disc2, disc3, disc4>>]
    /\ op' = "_quartet_score"
    /\ entry' = rack
    /\ prev' = NoPrev
    /\ UNCHANGED <<ID, MAX_PLIES, shape, rack, numpy_rack>>

Next ==
    \/ MakeMoveCall
    \/ UnmakeMoveCall
    \/ RackFullCall
    \/ BoardStateScoreCall
    \/ QuartetScoreCall

Spec == Init /\ [][Next]_vars

(***************************************************************************)
(* The board in the words of the game.                                      *)
(***************************************************************************)
\* the four cells of every line of four that lies on a rack of shape s
Directions == {<<0, 1>>, <<1, 0>>, <<1, 1>>, <<1, 0 - 1>>}

LineFrom(c, d) == {<<c[1] + k * d[1], c[2] + k * d[2]>> : k \in 0..3}

AlignedQuartets(s) ==
    {q \in {LineFrom(c, d) : c \in Cols(s) \X Rows(s), d \in Directions} :
        q \subseteq Cols(s) \X Rows(s)}

QuartetTable == [s \in AllShapes |-> AlignedQuartets(s)]

CountOf(r, q, v) == Cardinality({c \in q : r[c[1]][c[2]] = v})

\* player p holds all four cells of some line
HasFour(r, s, p) == \E q \in QuartetTable[s] : CountOf(r, q, p) = 4

NoFour(r, s) == ~HasFour(r, s, 1) /\ ~HasFour(r, s, 2)

Opponent(id) == 3 - id

Power10(k) == IF k = 1 THEN 1 ELSE IF k = 2 THEN 10 ELSE 100

\* what four cells holding own engine discs, opp opponent discs are worth
LineValue(own, opp) ==
    IF own = 4 THEN [score |-> WIN, win |-> TRUE]
    ELSE IF opp = 4 THEN [score |-> 0 - WIN, win |-> TRUE]
    ELSE IF own + opp = 0 \/ (own > 0 /\ opp > 0) THEN [score |-> 0, win |-> FALSE]
    ELSE IF own > 0 THEN [score |-> Power10(own), win |-> FALSE]
    ELSE [score |-> 0 - Power10(opp), win |-> FALSE]

\* the lines holding exactly k discs of player p and nothing else
LinesOf(r, s, p, k) ==
    Cardinality({q \in QuartetTable[s] : CountOf(r, q, p) = k /\ CountOf(r, q, 0) = 4 - k})

\* the heuristic total of a rack on which nobody has four in a line
HeuristicSum(r, s, id) ==
    (LinesOf(r, s, id, 1) - LinesOf(r, s, Opponent(id), 1))
    + 10 * (LinesOf(r, s, id, 2) - LinesOf(r, s, Opponent(id), 2))
    + 100 * (LinesOf(r, s, id, 3) - LinesOf(r, s, Opponent(id), 3))

\* the lowest empty row of a column that has room
LowestEmpty(r, s, col) ==
    CHOOSE j \in Rows(s) : r[col][j] = 0 /\ \A k \in Rows(s) : r[col][k] = 0 => j <= k

Changed(a, b, s) == {c \in Cols(s) \X Rows(s) : a[c[1]][c[2]] # b[c[1]][c[2]]}

(***************************************************************************)
(* C7 (as claimed): _make_move followed at once by _unmake_move on the      *)
(* same column leaves the rack equal to what it was before _make_move,      *)
(* for every column of every rack that is not full.                         *)
(***************************************************************************)
PairedRevert ==
    /\ op = "_unmake_move"
    /\ prev.op = "_make_move"
    /\ prev.arg.col = arg.col

C7_RoundTripAnyColumn ==
    (PairedRevert /\ Open(prev.entry, shape) # {}) => rack = prev.entry

(***************************************************************************)
(* C7 (amended): on a gravity-consistent rack, for every column whose top   *)
(* cell is empty, _make_move places a disc, and _unmake_move called at      *)
(* once on that column returns true and leaves the rack equal to what it    *)
(* was before _make_move.                                                   *)
(***************************************************************************)
C7_RoundTripOpenColumn ==
    (PairedRevert /\ arg.col \in Open(prev.entry, shape))
        => prev.ret = "True" /\ ret = "True" /\ rack = prev.entry /\ entry # prev.entry

C7_Witness ==
    /\ PairedRevert
    /\ arg.col \in Open(prev.entry, shape)
    /\ Height(prev.entry, shape, arg.col) >= 1
    /\ rack = prev.entry

(***************************************************************************)
(* C8: _make_move on a column whose top cell is occupied returns false      *)
(* and changes no cell; on a column whose top cell is empty it returns      *)
(* true and changes exactly one cell, the lowest empty cell of the column,  *)
(* which becomes the player's.                                              *)
(***************************************************************************)
C8_MakeMove ==
    op = "_make_move" =>
        IF entry[arg.col][shape[1]-1] # 0
        THEN ret = "False" /\ rack = entry
        ELSE /\ ret = "True"
             /\ Changed(entry, rack, shape) = {<<arg.col, LowestEmpty(entry, shape, arg.col)>>}
             /\ rack[arg.col][LowestEmpty(entry, shape, arg.col)] = arg.player

C8_Witness ==
    /\ op = "_make_move"
    /\ ret = "True"
    /\ Height(entry, shape, arg.col) >= 1
    /\ rack[arg.col][Height(entry, shape, arg.col)] = arg.player

C8_WitnessFull ==
    /\ op = "_make_move"
    /\ ret = "False"
    /\ rack = entry
    /\ Open(entry, shape) # {}

(***************************************************************************)
(* C9: _quartet_score of four discs returns (+1e9, true) when all four are  *)
(* the engine's, (-1e9, true) when all four are the opponent's, (0, false)  *)
(* when all are empty or both players appear, and otherwise, with k discs   *)
(* of one player and 4-k empties, 1, 10, 100 for k = 1, 2, 3, positive for  *)
(* the engine and negative for the opponent, with no win.                   *)
(***************************************************************************)
Occurrences(discs, v) == Cardinality({k \in 1..4 : discs[k] = v})

C9_QuartetScore ==
    op = "_quartet_score" =>
        ret = LineValue(Occurrences(arg.discs, ID), Occurrences(arg.discs, Opponent(ID)))

C9_Witness ==
    /\ op = "_quartet_score"
    /\ Occurrences(arg.discs, Opponent(ID)) = 3
    /\ Occurrences(arg.discs, 0) = 1
    /\ ret = [score |-> 0 - 100, win |-> FALSE]

(***************************************************************************)
(* C10: _board_state_score reports a win exactly when some line of four     *)
(* cells (vertical, horizontal, rising or falling diagonal) holds four      *)
(* discs of one player, and then returns that line's +1e9 or -1e9 alone;    *)
(* otherwise it returns the sum of the quartet scores of all the lines of   *)
(* the rack, each line once; a direction that does not fit the rack adds    *)
(* nothing and the empty rack scores (0, false).                            *)
(***************************************************************************)
\* the places <<nest, i, j>> of the scan, and the lines scanned
ScanPlaces(s) ==
    {x \in (1..4) \X (1..s[0]) \X (1..s[1]) :
        /\ x[2] <= Len(ScanTable[s][x[1]])
        /\ x[3] <= Len(ScanTable[s][x[1]][x[2]])}

ScannedLines(s) == {{ScanTable[s][x[1]][x[2]][x[3]][k] : k \in 1..4} : x \in ScanPlaces(s)}

C10_BoardStateScore ==
    op = "_board_state_score" =>
        /\ ScannedLines(shape) = QuartetTable[shape]
        /\ Cardinality(ScanPlaces(shape)) = Cardinality(QuartetTable[shape])
        /\ ret.win = (HasFour(rack, shape, 1) \/ HasFour(rack, shape, 2))
        /\ ret.win =>
             \E p \in Players :
                 /\ HasFour(rack, shape, p)
                 /\ ret.score = IF p = ID THEN WIN ELSE 0 - WIN
        /\ ~ret.win => ret.score = HeuristicSum(rack, shape, ID)
        /\ rack = EmptyRack(shape) => ret = [score |-> 0, win |-> FALSE]

C10_Witness ==
    /\ op = "_board_state_score"
    /\ shape = Shape(4, 4)
    /\ ~ret.win
    /\ ret.score = HeuristicSum(rack, shape, ID)
    /\ \E q \in QuartetTable[shape] : CountOf(rack, q, Opponent(ID)) = 3 /\ CountOf(rack, q, 0) = 1
    /\ \E q \in QuartetTable[shape] : CountOf(rack, q, ID) = 1 /\ CountOf(rack, q, 0) = 3

C10_WitnessWin ==
    /\ op = "_board_state_score"
    /\ ret = [score |-> 0 - WIN, win |-> TRUE]
    /\ HasFour(rack, shape, Opponent(ID))

C10_WitnessNarrow ==
    /\ op = "_board_state_score"
    /\ shape = Shape(4, 3)
    /\ ret.win
    /\ QuartetTable[shape] # {}

(***************************************************************************)
(* The search specification: a player is constructed with an identity and   *)
(* a difficulty level, and pick_move or _minimax is called on a rack.  The  *)
(* racks are all the racks of the small shapes, the racks of the tall       *)
(* shape with few discs, and the positions below.                           *)
(***************************************************************************)
\* a rack from its columns, each listed from row 0 upwards
RackOf(columns) ==
    [i \in 0..(Len(columns)-1) |-> [j \in 0..(Len(columns[1])-1) |-> columns[i+1][j+1]]]

SwapDiscs(r) == [i \in DOMAIN r |-> [j \in DOMAIN r[i] |-> IF r[i][j] = 0 THEN 0 ELSE 3 - r[i][j]]]

\* three in a row at row 0, columns 0-2, column 3 open, on the 7 by 6 rack
ThreeInRow ==
    RackOf(<< <<1,0,0,0,0,0>>, <<1,0,0,0,0,0>>, <<1,0,0,0,0,0>>, <<0,0,0,0,0,0>>,
              <<0,0,0,0,0,0>>, <<0,0,0,0,0,0>>, <<0,0,0,0,0,0>> >>)

\* four discs each, player 1 to move: dropping in column 0 or 2 wins by force
ForcedWin ==
    RackOf(<< <<1,0,0,0>>, <<2,1,0,0>>, <<2,0,0,0>>, <<2,1,2,1>> >>)

\* player 2 threatens column 1 at row 0 and, above it, at row 1
StackedThreat ==
    RackOf(<< <<2,2,1,0>>, <<0,0,0,0>>, <<2,2,1,1>>, <<2,2,1,1>> >>)

Scenarios ==
    {[shape |-> ScenarioShape, rack |-> ThreeInRow],
     [shape |-> ScenarioShape, rack |-> SwapDiscs(ThreeInRow)],
     [shape |-> Shape(4, 4), rack |-> ForcedWin],
     [shape |-> Shape(4, 4), rack |-> SwapDiscs(ForcedWin)],
     [shape |-> Shape(4, 4), rack |-> StackedThreat],
     [shape |-> Shape(4, 4), rack |-> SwapDiscs(StackedThreat)]}

SearchInputs ==
    UNION {{[shape |-> s, rack |-> r] : r \in RacksUpTo(s, s[0] * s[1])} : s \in FullShapes}
    \cup UNION {{[shape |-> s, rack |-> r] : r \in RacksUpTo(s, MaxSearchDiscs)} : s \in OpenShapes}
    \cup Scenarios

InitSearch ==
    /\ ID \in Players
    /\ MAX_PLIES \in 1..MaxPlies
    /\ \E inp \in SearchInputs :
         /\ shape = inp.shape
         /\ rack = inp.rack
    /\ numpy_rack = <<>>
    /\ op = "init"
    /\ arg = NoCall
    /\ ret = "none"
    /\ entry = rack
    /\ prev = NoPrev

PickMoveCall ==
    /\ op = "init"
    /\ LET res == pick_move(ID, MAX_PLIES, rack)
       IN /\ ret' = res.ret
          /\ numpy_rack' = res.numpy_rack
    /\ op' = "pick_move"
    /\ entry' = rack
    /\ UNCHANGED <<ID, MAX_PLIES, shape, rack, arg, prev>>

MinimaxCall ==
    /\ op = "init"
    /\ \E ply \in 1..MAX_PLIES :
         /\ LET res == _minimax(ID, MAX_PLIES, rack, shape, ply)
            IN /\ ret' = res.score
               /\ rack' = res.rack
         /\ arg' = [NoCall EXCEPT !.ply = ply]
    /\ op' = "_minimax"
    /\ entry' = rack
    /\ UNCHANGED <<ID, MAX_PLIES, shape, numpy_rack, prev>>

NextSearch ==
    \/ PickMoveCall
    \/ MinimaxCall

SpecSearch == InitSearch /\ [][NextSearch]_vars

(***************************************************************************)
(* The search in the words of the game.                                     *)
(***************************************************************************)
\* the columns with room where player p's drop completes a line of four
WinningCols(r, s, p) == {c \in Open(r, s) : HasFour(Drop(r, s, c, p), s, p)}

\* the position is still in play and it is the engine's call
Asked == op = "pick_move" /\ NoFour(entry, shape)

(***************************************************************************)
(* C1: on a rack with no four in a line on which some drop of the engine    *)
(* completes four of its discs, pick_move with any difficulty level         *)
(* returns a column whose drop wins at once; on the 7 by 6 rack with        *)
(* player 1 holding row 0 of columns 0-2 it returns column 3.               *)
(***************************************************************************)
C1_ImmediateWin ==
    /\ (Asked /\ WinningCols(entry, shape, ID) # {})
           => ret \in WinningCols(entry, shape, ID)
    /\ (op = "pick_move" /\ ID = 1 /\ entry = ThreeInRow) => ret = 3

C1_Witness ==
    /\ op = "pick_move"
    /\ ID = 1
    /\ MAX_PLIES = 1
    /\ entry = ThreeInRow
    /\ WinningCols(entry, shape, ID) = {3}
    /\ ret = 3

C1_WitnessDeep ==
    /\ Asked
    /\ MAX_PLIES >= 3
    /\ Cardinality(WinningCols(entry, shape, ID)) = 1
    /\ ret \in WinningCols(entry, shape, ID)
    /\ ret > 0

(***************************************************************************)
(* C2 (as claimed): whenever the opponent has a drop that completes four    *)
(* of its discs and the engine has no winning drop, pick_move with a        *)
(* difficulty level of 2 or more returns a column where the opponent would  *)
(* win, and no other.                                                       *)
(***************************************************************************)
Threatened ==
    /\ Asked
    /\ MAX_PLIES >= 2
    /\ WinningCols(entry, shape, ID) = {}
    /\ WinningCols(entry, shape, Opponent(ID)) # {}

C2_BlocksThreat ==
    Threatened => ret \in WinningCols(entry, shape, Opponent(ID))

(***************************************************************************)
(* C2 (amended): when the opponent has exactly one winning column c, the    *)
(* engine has no winning drop, and the engine's disc in c leaves the        *)
(* opponent no winning drop, pick_move with a difficulty level of 2 or      *)
(* more returns c.                                                          *)
(***************************************************************************)
Blockable(c) ==
    /\ WinningCols(entry, shape, Opponent(ID)) = {c}
    /\ WinningCols(Drop(entry, shape, c, ID), shape, Opponent(ID)) = {}

C2_BlocksSoleThreat ==
    Threatened => \A c \in Cols(shape) : Blockable(c) => ret = c

C2_Witness ==
    /\ Threatened
    /\ ID = 2
    /\ entry = ThreeInRow
    /\ Blockable(3)
    /\ ret = 3

C2_WitnessStacked ==
    /\ Threatened
    /\ ID = 1
    /\ entry = StackedThreat
    /\ WinningCols(entry, shape, Opponent(ID)) = {1}
    /\ ~Blockable(1)
    /\ ret = 0

C2_WitnessUnblockable ==
    /\ Threatened
    /\ Cardinality(WinningCols(entry, shape, Opponent(ID))) = 2
    /\ ret \notin WinningCols(entry, shape, Opponent(ID))

(***************************************************************************)
(* C3 (as claimed): in a position where the engine has no winning drop but  *)
(* some column c forces a win on its second move (after the drop in c the   *)
(* opponent has no winning reply, and after every reply the engine has a    *)
(* winning drop), pick_move with difficulty level 2 and with difficulty     *)
(* level 4 returns a column with that property.                             *)
(***************************************************************************)
Forcing(r, s, id, c) ==
    LET a == Drop(r, s, c, id)
    IN /\ Open(a, s) # {}
       /\ WinningCols(a, s, Opponent(id)) = {}
       /\ \A d \in Open(a, s) : WinningCols(Drop(a, s, d, Opponent(id)), s, id) # {}

ForcingCols(r, s, id) == {c \in Open(r, s) : Forcing(r, s, id, c)}

WinInTwo ==
    /\ Asked
    /\ WinningCols(entry, shape, ID) = {}
    /\ ForcingCols(entry, shape, ID) # {}

C3_ForcedWinBudget2And4 ==
    (WinInTwo /\ MAX_PLIES \in {2, 4}) => ret \in ForcingCols(entry, shape, ID)

(***************************************************************************)
(* C3 (amended): in such a position pick_move with a difficulty level of 3  *)
(* or more, 4 among them, returns a column that forces the win; with        *)
(* level 2, as with level 1, it need not.                                   *)
(***************************************************************************)
C3_ForcedWinBudget3Up ==
    (WinInTwo /\ MAX_PLIES >= 3) => ret \in ForcingCols(entry, shape, ID)

C3_Witness ==
    /\ WinInTwo
    /\ MAX_PLIES = 4
    /\ ID = 1
    /\ entry = ForcedWin
    /\ ForcingCols(entry, shape, ID) = {0, 2}
    /\ ret = 0

C3_WitnessShallow ==
    /\ WinInTwo
    /\ MAX_PLIES = 2
    /\ ID = 1
    /\ entry = ForcedWin
    /\ ret \notin ForcingCols(entry, shape, ID)

(***************************************************************************)
(* C4: pick_move returns None exactly when the top cell of every column is  *)
(* occupied; otherwise it returns a column index within the rack whose top  *)
(* cell is empty, also when column 0 is full.                               *)
(***************************************************************************)
C4_LegalMove ==
    op = "pick_move" =>
        /\ (ret = NoMove) = (\A c \in Cols(shape) : entry[c][shape[1]-1] # 0)
        /\ ret # NoMove => /\ 0 <= ret
                           /\ ret < shape[0]
                           /\ entry[ret][shape[1]-1] = 0

C4_Witness ==
    /\ op = "pick_move"
    /\ entry[0][shape[1]-1] # 0
    /\ ret # NoMove
    /\ ret > 0
    /\ entry[ret][shape[1]-1] = 0

C4_WitnessFull ==
    /\ op = "pick_move"
    /\ Open(entry, shape) = {}
    /\ ret = NoMove

(***************************************************************************)
(* C5: on a rack that is not full pick_move returns the leftmost of the     *)
(* columns with room whose minimax value is greatest.  The value of a drop  *)
(* is found by exhaustive minimax from ply 1: the opponent minimises at odd *)
(* plies, the engine maximises at even plies, a win at ply p is worth       *)
(* +1e9/p or -1e9/p, a full rack 0, and the heuristic total is taken when   *)
(* the ply equals the difficulty level.                                     *)
(***************************************************************************)
WinAt(ply) == [w |-> Scale \div ply, h |-> 0]
LossAt(ply) == [w |-> 0 - (Scale \div ply), h |-> 0]

Least(vals) == CHOOSE v \in vals : \A u \in vals : ~Less(u, v)
Greatest(vals) == CHOOSE v \in vals : \A u \in vals : ~Less(v, u)

RECURSIVE Value(_, _, _, _, _)
Value(id, budget, r, s, ply) ==
    IF HasFour(r, s, id) THEN WinAt(ply)
    ELSE IF HasFour(r, s, Opponent(id)) THEN LossAt(ply)
    ELSE IF Open(r, s) = {} THEN Num(0)
    ELSE IF ply = budget THEN Num(HeuristicSum(r, s, id))
    ELSE LET p == IF ply % 2 = 1 THEN Opponent(id) ELSE id
             vals == {Value(id, budget, Drop(r, s, c, p), s, ply + 1) : c \in Open(r, s)}
         IN IF p = id THEN Greatest(vals) ELSE Least(vals)

ValueOfDrop(c) == Value(ID, MAX_PLIES, Drop(entry, shape, c, ID), shape, 1)

C5_LeftmostBest ==
    (Asked /\ Open(entry, shape) # {}) =>
        /\ ret \in Open(entry, shape)
        /\ LET best == ValueOfDrop(ret)
           IN \A c \in Open(entry, shape) \ {ret} :
                  LET v == ValueOfDrop(c)
                  IN IF c < ret THEN Less(v, best) ELSE ~Less(best, v)

C5_Witness ==
    /\ Asked
    /\ MAX_PLIES >= 2
    /\ ret \in Open(entry, shape)
    /\ ret > 0
    /\ \E c \in Open(entry, shape) :
          /\ c > ret
          /\ ValueOfDrop(c) = ValueOfDrop(ret)
    /\ \E c \in Open(entry, shape) :
          /\ c < ret
          /\ Less(ValueOfDrop(c), ValueOfDrop(ret))

(***************************************************************************)
(* C6: for every rack whose discs rest on one another and every difficulty  *)
(* level, when pick_move returns its working array equals the rack it was   *)
(* given and the caller's rack is unchanged, and every call of _minimax     *)
(* returns with the array equal to what it was when the call was entered.   *)
(***************************************************************************)
C6_BoardRestored ==
    /\ op = "pick_move" => numpy_rack = entry /\ rack = entry
    /\ op = "_minimax" => rack = entry

C6_Witness ==
    /\ op = "pick_move"
    /\ MAX_PLIES >= 3
    /\ Discs(entry, shape) >= 2
    /\ ret # NoMove
    /\ numpy_rack = entry

C6_WitnessMinimax ==
    /\ op = "_minimax"
    /\ arg.ply < MAX_PLIES
    /\ NoFour(entry, shape)
    /\ Open(entry, shape) # {}
    /\ rack = entry

====
